---- MODULE Spec2Model ----
(***************************************************************************)
(* dnsup: a dynamic DNS client.  For every interface specification on the  *)
(* command line a goroutine polls the interface's addresses, resolves the  *)
(* address to publish (directly assigned, or reflected by a DNS service)   *)
(* and upserts a DNS record when the resolved address changes.             *)
(*                                                                         *)
(* Strings that the program splits are sequences of symbols (":" is the    *)
(* separator symbol); textual addresses and error messages are atomic      *)
(* strings; a net.IP is a tuple of 4 bytes (IPv4) or 8 groups (IPv6);      *)
(* durations are whole seconds.                                            *)
(***************************************************************************)
EXTENDS Integers, Sequences, FiniteSets, TLC

\* ---------------------------------------------------------------- bounds
\* Most addresses an interface holds at one time.
MaxAddrs == 3
\* Most colon-separated fields of a generated interface specification.
MaxFields == 5

\* ------------------------------------------------------------ constants
inet4 == 0
inet6 == 1
resolv4 == 2
resolv6 == 3

Akamai == "akamai"
Cloudflare == "cloudflare"
Google == "google"
OpenDNS == "opendns"

NoErr == "nil"
errNoValidAddresses == "no valid addresses"
errInvalidAddress == "invalid address"
errInvalidStrategy == "invalid strategy"
errInvalidSpecification == "invalid specification"
\* errors of the net, time and flag packages
errNoSuchInterface == "no such network interface"
errAddrs == "route ip+net: address enumeration failed"
errParseCIDR == "invalid CIDR address"
errParseDuration == "time: invalid duration"
errLookup == "lookup: i/o timeout"
errUsage == "usage"

\* the default of the -poll-interval flag, 1*time.Minute, in seconds
DefaultPollInterval == 60

\* ------------------------------------------------------------- net.IP
NilIP == <<>>
ipA == <<203, 0, 113, 5>>
ipB == <<198, 51, 100, 7>>
ipC == <<8193, 3512, 0, 0, 0, 0, 0, 1>>
ipL == <<65152, 0, 0, 0, 0, 0, 0, 1>>

\* net.IP.To4: the 4-byte form, nil for an address that has none
To4(a) == IF Len(a) = 4 THEN a ELSE NilIP

\* net.IP.IsGlobalUnicast
IsGlobalUnicast(a) ==
    IF Len(a) = 4
    THEN /\ a # <<255, 255, 255, 255>>
         /\ a # <<0, 0, 0, 0>>
         /\ a[1] # 127
         /\ ~(a[1] >= 224 /\ a[1] <= 239)
         /\ ~(a[1] = 169 /\ a[2] = 254)
    ELSE /\ Len(a) = 8
         /\ a # <<0, 0, 0, 0, 0, 0, 0, 0>>
         /\ a # <<0, 0, 0, 0, 0, 0, 0, 1>>
         /\ a[1] < 65280
         /\ ~(a[1] >= 65152 /\ a[1] <= 65215)

\* net.IP.String
String(a) ==
    CASE a = ipA -> "203.0.113.5"
      [] a = ipB -> "198.51.100.7"
      [] a = ipC -> "2001:db8::1"
      [] a = ipL -> "fe80::1"
      [] OTHER -> "<nil>"

\* net.ParseIP: nil for a string that is no textual address
ParseIP(s) ==
    CASE s = "203.0.113.5" -> ipA
      [] s = "198.51.100.7" -> ipB
      [] s = "2001:db8::1" -> ipC
      [] s = "fe80::1" -> ipL
      [] OTHER -> NilIP

\* net.ParseCIDR of the text of an interface address ("<ip>/<prefix length>")
ParseCIDR(v) ==
    IF v.mask >= 0 /\ v.mask <= 8 * (IF Len(v.ip) = 4 THEN 4 ELSE 16)
    THEN [ip |-> v.ip, err |-> NoErr]
    ELSE [ip |-> NilIP, err |-> errParseCIDR]

\* ------------------------------------------------- strategy, toIf, args
\* strings.Split(v, ":")
RECURSIVE SplitAcc(_, _, _)
SplitAcc(v, cur, out) ==
    IF v = <<>> THEN Append(out, cur)
    ELSE IF Head(v) = ":" THEN SplitAcc(Tail(v), <<>>, Append(out, cur))
    ELSE SplitAcc(Tail(v), Append(cur, Head(v)), out)

Split(v) == SplitAcc(v, <<>>, <<>>)

\* (mutant of strategy) the tokens of the 0.1.0 release are accepted too
strategyLegacy(str) ==
    CASE str = <<"assign">> -> [s |-> inet4, err |-> NoErr]
      [] str = <<"assigned">> -> [s |-> inet4, err |-> NoErr]
      [] str = <<"resolve">> -> [s |-> resolv4, err |-> NoErr]
      [] str = <<"inet">> -> [s |-> inet4, err |-> NoErr]
      [] str = <<"inet4">> -> [s |-> inet4, err |-> NoErr]
      [] str = <<"inet6">> -> [s |-> inet6, err |-> NoErr]
      [] str = <<"resolv">> -> [s |-> resolv4, err |-> NoErr]
      [] str = <<"resolv4">> -> [s |-> resolv4, err |-> NoErr]
      [] str = <<"resolv6">> -> [s |-> resolv6, err |-> NoErr]
      [] OTHER -> [s |-> inet4, err |-> errInvalidStrategy]

strategy(str) ==
    CASE str = <<"inet">> -> [s |-> inet4, err |-> NoErr]
      [] str = <<"inet4">> -> [s |-> inet4, err |-> NoErr]
      [] str = <<"inet6">> -> [s |-> inet6, err |-> NoErr]
      [] str = <<"resolv">> -> [s |-> resolv4, err |-> NoErr]
      [] str = <<"resolv4">> -> [s |-> resolv4, err |-> NoErr]
      [] str = <<"resolv6">> -> [s |-> resolv6, err |-> NoErr]
      [] OTHER -> [s |-> inet4, err |-> errInvalidStrategy]

\* time.ParseDuration, on the duration strings of the model
ParseDuration(str) ==
    CASE str = <<"30s">> -> [d |-> 30, err |-> NoErr]
      [] str = <<"1m">> -> [d |-> 60, err |-> NoErr]
      [] str = <<"0s">> -> [d |-> 0, err |-> NoErr]
      [] str = <<"-5s">> -> [d |-> 0 - 5, err |-> NoErr]
      [] OTHER -> [d |-> 0, err |-> errParseDuration]

ifT(name, label, s, interval) ==
    [name |-> name, label |-> label, strategy |-> s, interval |-> interval]

\* (mutant of toIfOne) fields after the fourth are ignored
toIfOneIgnoresExtra(v, interval) ==
    LET x == Split(v) IN
    CASE Len(x) = 1 ->
           [ift |-> ifT(x[1], x[1], inet4, interval), err |-> NoErr]
      [] Len(x) = 2 ->
           [ift |-> ifT(x[1], x[2], inet4, interval), err |-> NoErr]
      [] Len(x) = 3 ->
           LET s == strategy(x[3]) IN
           IF s.err # NoErr
           THEN [ift |-> ifT(<<>>, <<>>, inet4, 0), err |-> s.err]
           ELSE [ift |-> ifT(x[1], x[2], s.s, interval), err |-> NoErr]
      [] OTHER ->
           LET s == strategy(x[3])
               d == ParseDuration(x[4])
           IN  IF s.err # NoErr
               THEN [ift |-> ifT(<<>>, <<>>, inet4, 0), err |-> s.err]
               ELSE IF d.err # NoErr
               THEN [ift |-> ifT(<<>>, <<>>, inet4, 0), err |-> d.err]
               ELSE [ift |-> ifT(x[1], x[2], s.s, d.d), err |-> NoErr]

\* one iteration of toIf's loop: the ifT appended for v, or the error returned
toIfOne(v, interval) ==
    LET x == Split(v) IN
    CASE Len(x) = 1 ->
           [ift |-> ifT(x[1], x[1], inet4, interval), err |-> NoErr]
      [] Len(x) = 2 ->
           [ift |-> ifT(x[1], x[2], inet4, interval), err |-> NoErr]
      [] Len(x) = 3 ->
           LET s == strategy(x[3]) IN
           IF s.err # NoErr
           THEN [ift |-> ifT(<<>>, <<>>, inet4, 0), err |-> s.err]
           ELSE [ift |-> ifT(x[1], x[2], s.s, interval), err |-> NoErr]
      [] Len(x) = 4 ->
           LET s == strategy(x[3])
               d == ParseDuration(x[4])
           IN  IF s.err # NoErr
               THEN [ift |-> ifT(<<>>, <<>>, inet4, 0), err |-> s.err]
               ELSE IF d.err # NoErr
               THEN [ift |-> ifT(<<>>, <<>>, inet4, 0), err |-> d.err]
               ELSE [ift |-> ifT(x[1], x[2], s.s, d.d), err |-> NoErr]
      [] OTHER ->
           [ift |-> ifT(<<>>, <<>>, inet4, 0), err |-> errInvalidSpecification]

\* (mutant of toIfAcc) a specification that does not parse ends the loop,
\* and the ones parsed before it are returned
RECURSIVE toIfAccKeepsParsed(_, _, _)
toIfAccKeepsParsed(arg, interval, ifs) ==
    IF arg = <<>> THEN [ifs |-> ifs, err |-> NoErr]
    ELSE LET r == toIfOne(Head(arg), interval) IN
         IF r.err # NoErr THEN [ifs |-> ifs, err |-> NoErr]
         ELSE toIfAccKeepsParsed(Tail(arg), interval, Append(ifs, r.ift))

RECURSIVE toIfAcc(_, _, _)
toIfAcc(arg, interval, ifs) ==
    IF arg = <<>> THEN [ifs |-> ifs, err |-> NoErr]
    ELSE LET r == toIfOne(Head(arg), interval) IN
         IF r.err # NoErr THEN [ifs |-> ifs, err |-> r.err]
         ELSE toIfAcc(Tail(arg), interval, Append(ifs, r.ift))

toIf(arg, interval) == toIfAcc(arg, interval, <<>>)

\* strings.ToLower, on the service names of the model
ToLower(s) ==
    CASE s = "Google" -> "google"
      [] s = "OpenDNS" -> "opendns"
      [] s = "AKAMAI" -> "akamai"
      [] s = "CloudFlare" -> "cloudflare"
      [] OTHER -> s

NoArgv == [iface |-> <<>>, domain |-> "", service |-> "", dryrun |-> FALSE,
           pollInterval |-> 0]

\* (mutant of args) the service is not looked at
argsAnyService(cl) ==
    IF Len(cl.pos) < 2
    THEN [exit |-> TRUE, err |-> errUsage, argv |-> NoArgv]
    ELSE LET r == toIf(Tail(cl.pos), cl.pollInterval) IN
         IF r.err # NoErr
         THEN [exit |-> TRUE, err |-> r.err, argv |-> NoArgv]
         ELSE [exit |-> FALSE, err |-> NoErr,
               argv |-> [iface |-> r.ifs, domain |-> cl.pos[1],
                         service |-> cl.service, dryrun |-> cl.dryrun,
                         pollInterval |-> cl.pollInterval]]

\* args(): the configuration, or the exit it makes (os.Exit(1) after usage)
args(cl) ==
    IF Len(cl.pos) < 2
    THEN [exit |-> TRUE, err |-> errUsage, argv |-> NoArgv]
    ELSE LET r == toIf(Tail(cl.pos), cl.pollInterval)
             service == ToLower(cl.service)
         IN  IF r.err # NoErr
             THEN [exit |-> TRUE, err |-> r.err, argv |-> NoArgv]
             ELSE IF service \notin {Akamai, Cloudflare, Google, OpenDNS}
             THEN [exit |-> TRUE, err |-> errUsage, argv |-> NoArgv]
             ELSE [exit |-> FALSE, err |-> NoErr,
                   argv |-> [iface |-> r.ifs, domain |-> cl.pos[1],
                             service |-> service, dryrun |-> cl.dryrun,
                             pollInterval |-> cl.pollInterval]]

\* ------------------------------------------------------ the host's network
\* An interface address as the platform reports it: the address and the
\* prefix length of its CIDR text (a negative length stands for a text
\* net.ParseCIDR rejects).
RawAddrs ==
    {[ip |-> ipA, mask |-> 24], [ip |-> ipB, mask |-> 24],
     [ip |-> ipC, mask |-> 64], [ip |-> ipL, mask |-> 64],
     [ip |-> ipA, mask |-> 0 - 1]}

RECURSIVE SeqsUpTo(_, _)
SeqsUpTo(S, k) ==
    IF k = 0 THEN {<<>>}
    ELSE LET shorter == SeqsUpTo(S, k - 1) IN
         shorter \cup {Append(q, x) : q \in shorter, x \in S}

OsState(iferr, addrerr, addrs) ==
    [iferr |-> iferr, addrerr |-> addrerr, addrs |-> addrs]

\* What the platform may answer for an interface name at a tick.  eth0 can
\* hold any addresses, ppp0 any of two global ones; eth1, eth2 and eth3
\* hold fixed addresses; every other name is no interface of the host.
HostAddrs(name) ==
    CASE name = <<"eth0">> ->
           {OsState(TRUE, FALSE, <<>>), OsState(FALSE, TRUE, <<>>)}
           \cup {OsState(FALSE, FALSE, l) : l \in SeqsUpTo(RawAddrs, MaxAddrs)}
      [] name = <<"ppp0">> ->
           {OsState(TRUE, FALSE, <<>>)}
           \cup {OsState(FALSE, FALSE, l) :
                    l \in SeqsUpTo({[ip |-> ipA, mask |-> 32],
                                    [ip |-> ipC, mask |-> 128]}, MaxAddrs)}
      [] name = <<"eth1">> ->
           {OsState(TRUE, FALSE, <<>>),
            OsState(FALSE, FALSE, <<[ip |-> ipA, mask |-> 24]>>)}
      [] name = <<"eth2">> ->
           {OsState(FALSE, TRUE, <<>>),
            OsState(FALSE, FALSE, <<[ip |-> ipB, mask |-> 24]>>)}
      [] name = <<"eth3">> ->
           {OsState(TRUE, FALSE, <<>>),
            OsState(FALSE, FALSE, <<[ip |-> ipL, mask |-> 64],
                                    [ip |-> ipB, mask |-> 24]>>)}
      [] OTHER -> {OsState(TRUE, FALSE, <<>>)}

\* What a lookup through the reflection service may return
Answers ==
    {[err |-> errLookup, ipaddr |-> <<>>],
     [err |-> NoErr, ipaddr |-> <<>>],
     [err |-> NoErr, ipaddr |-> <<"not-an-ip">>],
     [err |-> NoErr, ipaddr |-> <<"203.0.113.5">>],
     [err |-> NoErr, ipaddr |-> <<"2001:db8::1", "203.0.113.5">>]}

\* How an HTTP PUT to the provider may end
HttpOutcomes == {"do error", "read error", "200", "401"}

\* ---------------------------------------------------------------- ipaddr
RECURSIVE ipaddrAcc(_, _)
ipaddrAcc(addr, n) ==
    IF addr = <<>> THEN [n |-> n, err |-> NoErr]
    ELSE LET c == ParseCIDR(Head(addr)) IN
         IF c.err # NoErr THEN [n |-> n, err |-> c.err]
         ELSE IF ~IsGlobalUnicast(c.ip) THEN ipaddrAcc(Tail(addr), n)
         ELSE ipaddrAcc(Tail(addr), Append(n, c.ip))

ipaddr(os) ==
    IF os.iferr THEN [n |-> <<>>, err |-> errNoSuchInterface]
    ELSE IF os.addrerr THEN [n |-> <<>>, err |-> errAddrs]
    ELSE ipaddrAcc(os.addrs, <<>>)

\* ---------------------------------------------------- nameserver, lookup
nameserver(service) ==
    CASE service = Akamai -> "ns1-1.akamaitech.net:53"
      [] service = Cloudflare -> "armando.ns.cloudflare.com:53"
      [] service = Google -> "ns1.google.com:53"
      [] service = OpenDNS -> "resolver1.opendns.com:53"
      [] OTHER -> "panic: unsupported service"

\* the question argv.lookup asks through the resolver
lookup(service) ==
    CASE service = Akamai -> [fn |-> "LookupHost", name |-> "whoami.akamai.net"]
      [] service = Cloudflare -> [fn |-> "LookupTXT", name |-> "whoami.cloudflare.com"]
      [] service = Google -> [fn |-> "LookupTXT", name |-> "o-o.myaddr.l.google.com"]
      [] service = OpenDNS -> [fn |-> "LookupHost", name |-> "myip.opendns.com"]
      [] OTHER -> [fn |-> "panic", name |-> "unsupported service"]

\* ---------------------------------------------------------------- resolv
IsReflect(s) == s = resolv4 \/ s = resolv6

\* (mutant of dial) the resolver of resolv4 dials like that of resolv6,
\* from no local address
dialUnbound(s, a, service) ==
    IF s = resolv4
    THEN [LocalAddr |-> NilIP, network |-> "udp", ns |-> nameserver(service)]
    ELSE [LocalAddr |-> NilIP, network |-> "udp6", ns |-> nameserver(service)]

\* r.Dial of the resolver built for candidate a: the local address the UDP
\* socket is bound to (nil for none), the network and the server dialled
dial(s, a, service) ==
    IF s = resolv4
    THEN [LocalAddr |-> a, network |-> "udp", ns |-> nameserver(service)]
    ELSE [LocalAddr |-> NilIP, network |-> "udp6", ns |-> nameserver(service)]

\* (mutant of try) a local strategy returns the first candidate, whatever
\* its family
tryFirstCandidate(s, a, ans) ==
    CASE s = inet4 -> [ret |-> TRUE, n |-> String(a)]
      [] s = inet6 -> [ret |-> TRUE, n |-> String(a)]
      [] OTHER ->
           IF ans.err # NoErr THEN [ret |-> FALSE, n |-> ""]
           ELSE IF Len(ans.ipaddr) = 0 THEN [ret |-> FALSE, n |-> ""]
           ELSE IF ParseIP(ans.ipaddr[1]) = NilIP THEN [ret |-> FALSE, n |-> ""]
           ELSE [ret |-> TRUE, n |-> ans.ipaddr[1]]

\* (mutant of try) a reflection strategy returns the first answer it gets,
\* parsable or not
tryUnparsed(s, a, ans) ==
    CASE s = inet4 ->
           IF To4(a) = NilIP THEN [ret |-> FALSE, n |-> ""]
           ELSE [ret |-> TRUE, n |-> String(a)]
      [] s = inet6 ->
           IF To4(a) # NilIP THEN [ret |-> FALSE, n |-> ""]
           ELSE [ret |-> TRUE, n |-> String(a)]
      [] OTHER ->
           IF ans.err # NoErr THEN [ret |-> FALSE, n |-> ""]
           ELSE IF Len(ans.ipaddr) = 0 THEN [ret |-> FALSE, n |-> ""]
           ELSE [ret |-> TRUE, n |-> ans.ipaddr[1]]

\* the body of resolv's loop for candidate a, ans being what the lookup
\* returns (read by the reflection strategies only): the address returned,
\* or continue
try(s, a, ans) ==
    CASE s = inet4 ->
           IF To4(a) = NilIP THEN [ret |-> FALSE, n |-> ""]
           ELSE [ret |-> TRUE, n |-> String(a)]
      [] s = inet6 ->
           IF To4(a) # NilIP THEN [ret |-> FALSE, n |-> ""]
           ELSE [ret |-> TRUE, n |-> String(a)]
      [] OTHER ->
           IF ans.err # NoErr THEN [ret |-> FALSE, n |-> ""]
           ELSE IF Len(ans.ipaddr) = 0 THEN [ret |-> FALSE, n |-> ""]
           ELSE IF ParseIP(ans.ipaddr[1]) = NilIP THEN [ret |-> FALSE, n |-> ""]
           ELSE [ret |-> TRUE, n |-> ans.ipaddr[1]]

\* --------------------------------------------------------------- publish
\* (mutant of publish) the record type is A whatever the address
publishAlwaysA(av, label, addr) ==
    LET ip == ParseIP(addr)
        none == [label |-> label, rtype |-> "", value |-> ""]
    IN  IF ip = NilIP THEN [do |-> FALSE, req |-> none]
        ELSE IF av.dryrun THEN [do |-> FALSE, req |-> none]
        ELSE [do |-> TRUE,
              req |-> [label |-> label, rtype |-> "A", value |-> addr]]

\* argv.publish up to the request it hands to the HTTP client: whether a
\* request is made, and for which record
publish(av, label, addr) ==
    LET ip == ParseIP(addr)
        rtype == IF To4(ip) = NilIP THEN "AAAA" ELSE "A"
        none == [label |-> label, rtype |-> "", value |-> ""]
    IN  IF ip = NilIP THEN [do |-> FALSE, req |-> none]
        ELSE IF av.dryrun THEN [do |-> FALSE, req |-> none]
        ELSE [do |-> TRUE,
              req |-> [label |-> label, rtype |-> rtype, value |-> addr]]

\* the error argv.publish returns once the HTTP exchange has ended
publishErr(out) ==
    CASE out = "do error" -> "Put: connection refused"
      [] out = "read error" -> "unexpected EOF"
      [] OTHER -> NoErr

\* ------------------------------------------------------------ the process
VARIABLES
    cmdline,  \* the command line: positional arguments and flags
    mainpc,   \* main: "args", "go", "recv" (blocked on <-errch) or "exit"
    argv,     \* the *argvT args() returned
    exit,     \* what the process exited with (code 0: still running)
    pc,       \* per task: "wait" (on its ticker), "resolv" (in resolv's loop),
              \* "publish" (HTTP PUT in flight), "send" (blocked on errch <- err),
              \* "done" (run returned), "fatal" (the task called Fatalln)
    ip,       \* per task: the candidates ipaddr returned on the current tick
    idx,      \* per task: the candidate resolv's loop is at (0: not in the loop)
    n,        \* per task: the address resolv last returned
    rerr,     \* per task: the error resolv last returned
    p,        \* per task: run's variable p
    serr,     \* per task: the error ipaddr returned, which run sends on errch
    qlog,     \* per task: the lookups made on the current tick, in order
    lastok,   \* per task: the address of the last publish that returned nil
    nfail,    \* per task: consecutive ticks whose resolv failed (saturating)
    perr,     \* per task: the error publish returned on the current tick (nil
              \* while it has not returned)
    pending,  \* per task: a tick waits in the ticker's channel (of capacity 1)
    puts,     \* the record upserts handed to the HTTP client so far
    zone,     \* the provider's records, where the provider is followed: the
              \* PUTs it applied, the last one for each label and type
    applied   \* per task: the provider has applied the PUT in flight

vars == <<cmdline, mainpc, argv, exit, pc, ip, idx, n, rerr, p, serr, qlog,
          lastok, nfail, perr, pending, puts, zone, applied>>

\* Saturation of the count of consecutive failed ticks.
MaxFails == 2

Running == [code |-> 0, err |-> NoErr]

Tasks == 1 .. Len(argv.iface)

RECURSIVE Join(_)
Join(fs) == IF Len(fs) = 1 THEN fs[1] ELSE fs[1] \o <<":">> \o Join(Tail(fs))

Cl(pos, dryrun, service, pollInterval) ==
    [pos |-> pos, dryrun |-> dryrun, service |-> service,
     pollInterval |-> pollInterval]

dom == <<"example.com">>

\* The command lines the process is started with.
CmdLines ==
    {Cl(<<dom, Join(<<<<"eth0">>, <<"host1">>, <<s>>>>)>>, d, "Google",
        DefaultPollInterval) : s \in {"inet4", "inet6"}, d \in BOOLEAN}
    \cup
    {Cl(<<dom, Join(<<<<"ppp0">>, <<"host1">>, <<"resolv4">>>>)>>, d, "Google",
        DefaultPollInterval) : d \in BOOLEAN}
    \cup
    {Cl(<<dom, Join(<<<<"ppp0">>, <<"host1">>, <<"resolv6">>>>)>>, FALSE,
        "CloudFlare", DefaultPollInterval)}
    \cup
    {Cl(<<dom, <<"eth0">>>>, FALSE, "google", 30),
     Cl(<<dom, Join(<<<<"eth1">>, <<"host1">>, <<"resolv">>>>),
               Join(<<<<"eth2">>, <<"host2">>, <<"inet4">>, <<"30s">>>>),
               Join(<<<<"eth3">>, <<"host1">>>>)>>,
        FALSE, "OpenDNS", DefaultPollInterval),
     Cl(<<dom>>, FALSE, "google", DefaultPollInterval),
     Cl(<<dom, Join(<<<<"eth1">>, <<"host1">>>>),
               Join(<<<<"eth0">>, <<"host1">>, <<"assign">>>>)>>,
        FALSE, "google", DefaultPollInterval),
     Cl(<<dom, Join(<<<<"eth1">>, <<"host1">>, <<"resolv6">>>>)>>,
        FALSE, "quad9", DefaultPollInterval),
     Cl(<<dom, Join(<<<<"eth1">>, <<"host1">>, <<"inet4">>>>),
               Join(<<<<"eth2">>, <<"host2">>, <<"inet4">>, <<"soon">>>>)>>,
        FALSE, "google", DefaultPollInterval),
     Cl(<<dom, Join(<<<<"eth1">>, <<"host1">>>>),
               Join(<<<<"eth2">>, <<"host2">>, <<"inet4">>, <<"30s">>, <<"x">>>>),
               Join(<<<<"eth3">>, <<"host1">>>>)>>,
        FALSE, "google", DefaultPollInterval),
     Cl(<<dom, Join(<<<<"eth1">>, <<"host1">>, <<"inet">>, <<"0s">>>>)>>,
        FALSE, "AKAMAI", DefaultPollInterval),
     Cl(<<dom, <<"eth1">>>>, FALSE, "google", 0),
     Cl(<<dom, Join(<<<<"eth1">>, <<"host1">>, <<"resolv4">>, <<"1m">>>>)>>,
        FALSE, "AKAMAI", DefaultPollInterval)}

InitWith(cls) ==
    /\ cmdline \in cls
    /\ mainpc = "args"
    /\ argv = NoArgv
    /\ exit = Running
    /\ pc = <<>> /\ ip = <<>> /\ idx = <<>> /\ n = <<>> /\ rerr = <<>>
    /\ p = <<>> /\ serr = <<>> /\ qlog = <<>> /\ lastok = <<>> /\ nfail = <<>>
    /\ perr = <<>> /\ pending = <<>> /\ applied = <<>>
    /\ puts = {} /\ zone = {}

Init == InitWith(CmdLines)

\* main: argv := args()
MainArgs ==
    /\ mainpc = "args"
    /\ LET r == args(cmdline) IN
       IF r.exit
       THEN /\ mainpc' = "exit"
            /\ exit' = [code |-> 1, err |-> r.err]
            /\ UNCHANGED argv
       ELSE /\ mainpc' = "go"
            /\ argv' = r.argv
            /\ UNCHANGED exit
    /\ UNCHANGED <<pending, zone, applied>>
    /\ UNCHANGED <<cmdline, pc, ip, idx, n, rerr, p, serr, qlog, lastok,
                   nfail, perr, puts>>

\* main: errch := make(chan error); go argv.run(ift, errch) for every ift.
\* Every run creates its ticker, declares p and blocks on the ticker.
MainGo ==
    /\ mainpc = "go"
    /\ mainpc' = "recv"
    /\ pc' = [t \in Tasks |-> "wait"]
    /\ ip' = [t \in Tasks |-> <<>>]
    /\ idx' = [t \in Tasks |-> 0]
    /\ n' = [t \in Tasks |-> ""]
    /\ rerr' = [t \in Tasks |-> NoErr]
    /\ p' = [t \in Tasks |-> ""]
    /\ serr' = [t \in Tasks |-> NoErr]
    /\ qlog' = [t \in Tasks |-> <<>>]
    /\ lastok' = [t \in Tasks |-> ""]
    /\ perr' = [t \in Tasks |-> NoErr]
    /\ pending' = [t \in Tasks |-> FALSE]
    /\ applied' = [t \in Tasks |-> FALSE]
    /\ UNCHANGED zone
    /\ nfail' = [t \in Tasks |-> 0]
    /\ UNCHANGED <<cmdline, argv, exit, puts>>

\* (mutant of MainRecv) main receives only once every task has an error to
\* report
MainRecvWaitsAll ==
    /\ mainpc = "recv"
    /\ \A u \in Tasks : pc[u] = "send"
    /\ \E t \in Tasks :
        /\ pc[t] = "send"
        /\ exit' = [code |-> 1, err |-> serr[t]]
        /\ pc' = [pc EXCEPT ![t] = "done"]
    /\ mainpc' = "exit"
    /\ UNCHANGED <<pending, zone, applied>>
    /\ UNCHANGED <<cmdline, argv, ip, idx, n, rerr, p, serr, qlog, lastok,
                   nfail, perr, puts>>

\* main: err := <-errch; argv.stderr.Fatalln(err).  The channel is unbuffered:
\* the receive takes the error of one task blocked in its send, and the
\* process exits with it.
MainRecv ==
    /\ mainpc = "recv"
    /\ \E t \in Tasks :
        /\ pc[t] = "send"
        /\ exit' = [code |-> 1, err |-> serr[t]]
        /\ pc' = [pc EXCEPT ![t] = "done"]
    /\ mainpc' = "exit"
    /\ UNCHANGED <<pending, zone, applied>>
    /\ UNCHANGED <<cmdline, argv, ip, idx, n, rerr, p, serr, qlog, lastok,
                   nfail, perr, puts>>

\* (mutant of unchanged) every tick is taken for a change
unchangedNever(prev, new) == FALSE

\* run, line 258: the comparison that decides whether the tick goes on to
\* publish
unchanged(prev, new) == prev = new

\* (mutant of ResolvFailed) a resolution error is sent on errch and ends the
\* task, as an enumeration error does
ResolvFailedFatal(t, e) ==
    /\ pc' = [pc EXCEPT ![t] = "send"]
    /\ serr' = [serr EXCEPT ![t] = e]
    /\ nfail' = [nfail EXCEPT ![t] = IF @ < MaxFails THEN @ + 1 ELSE @]
    /\ UNCHANGED <<p, lastok, puts>>
    /\ perr' = [perr EXCEPT ![t] = NoErr]

\* run, lines 251-254: resolv returned an error; it is logged and the loop
\* continues with the next tick
ResolvFailed(t, e) ==
    /\ pc' = [pc EXCEPT ![t] = "wait"]
    /\ nfail' = [nfail EXCEPT ![t] = IF @ < MaxFails THEN @ + 1 ELSE @]
    /\ UNCHANGED <<p, serr, lastok, puts>>
    /\ perr' = [perr EXCEPT ![t] = NoErr]

\* (mutant of Compare) dry-run is tested before p is assigned
CompareDryRunFirst(t, nn) ==
    /\ nfail' = [nfail EXCEPT ![t] = 0]
    /\ UNCHANGED serr
    /\ IF unchanged(p[t], nn) \/ argv.dryrun
       THEN /\ pc' = [pc EXCEPT ![t] = "wait"]
            /\ UNCHANGED <<p, lastok, puts>>
            /\ perr' = [perr EXCEPT ![t] = NoErr]
       ELSE /\ p' = [p EXCEPT ![t] = nn]
            /\ LET c == publish(argv, argv.iface[t].label, nn) IN
               IF c.do
               THEN /\ pc' = [pc EXCEPT ![t] = "publish"]
                    /\ puts' = puts \cup {c.req}
                    /\ UNCHANGED lastok
                    /\ perr' = [perr EXCEPT ![t] = NoErr]
               ELSE /\ pc' = [pc EXCEPT ![t] = "wait"]
                    /\ lastok' = [lastok EXCEPT ![t] = nn]
                    /\ perr' = [perr EXCEPT ![t] = NoErr]
                    /\ UNCHANGED puts

\* run, lines 258-268: resolv returned the address nn
Compare(t, nn) ==
    /\ nfail' = [nfail EXCEPT ![t] = 0]
    /\ UNCHANGED serr
    /\ IF unchanged(p[t], nn)
       THEN /\ pc' = [pc EXCEPT ![t] = "wait"]
            /\ UNCHANGED <<p, lastok, puts>>
            /\ perr' = [perr EXCEPT ![t] = NoErr]
       ELSE /\ p' = [p EXCEPT ![t] = nn]
            /\ IF argv.dryrun
               THEN /\ pc' = [pc EXCEPT ![t] = "wait"]
                    /\ UNCHANGED <<lastok, puts>>
                    /\ perr' = [perr EXCEPT ![t] = NoErr]
               ELSE LET c == publish(argv, argv.iface[t].label, nn) IN
                    IF c.do
                    THEN /\ pc' = [pc EXCEPT ![t] = "publish"]
                         /\ puts' = puts \cup {c.req}
                         /\ UNCHANGED lastok
                         /\ perr' = [perr EXCEPT ![t] = NoErr]
                    ELSE /\ pc' = [pc EXCEPT ![t] = "wait"]
                         /\ lastok' = [lastok EXCEPT ![t] = nn]
                         /\ perr' = [perr EXCEPT ![t] = NoErr]
                         /\ UNCHANGED puts

\* run, from the return of resolv to the next blocking point of the tick
AfterResolv(t, nn, e) ==
    /\ n' = [n EXCEPT ![t] = nn]
    /\ rerr' = [rerr EXCEPT ![t] = e]
    /\ idx' = [idx EXCEPT ![t] = 0]
    /\ IF e # NoErr THEN ResolvFailed(t, e) ELSE Compare(t, nn)

\* (mutant of EnumFailed) an enumeration error is only noted and the loop
\* continues with the next tick
EnumFailedContinues(t, e) ==
    /\ pc' = [pc EXCEPT ![t] = "wait"]
    /\ serr' = [serr EXCEPT ![t] = e]
    /\ ip' = [ip EXCEPT ![t] = <<>>]
    /\ qlog' = [qlog EXCEPT ![t] = <<>>]
    /\ n' = [n EXCEPT ![t] = ""]
    /\ rerr' = [rerr EXCEPT ![t] = NoErr]
    /\ UNCHANGED <<idx, p, lastok, nfail, puts>>
    /\ perr' = [perr EXCEPT ![t] = NoErr]

\* run, lines 246-249: ipaddr returned an error; it is sent on errch (the
\* send blocks until main receives) and run returns
EnumFailed(t, e) ==
    /\ pc' = [pc EXCEPT ![t] = "send"]
    /\ serr' = [serr EXCEPT ![t] = e]
    /\ ip' = [ip EXCEPT ![t] = <<>>]
    /\ qlog' = [qlog EXCEPT ![t] = <<>>]
    /\ n' = [n EXCEPT ![t] = ""]
    /\ rerr' = [rerr EXCEPT ![t] = NoErr]
    /\ UNCHANGED <<idx, p, lastok, nfail, puts>>
    /\ perr' = [perr EXCEPT ![t] = NoErr]

\* (mutant of resolvNone) running out of candidates is no error
resolvNoneNil == [n |-> "", err |-> NoErr]

\* resolv, line 364: every candidate was passed over
resolvNone == [n |-> "", err |-> errNoValidAddresses]

\* (mutant of Tick) the bodies of the ticks of all tasks exclude each other:
\* a task takes its tick only while no other task is in a lookup or an
\* upsert
TickOneAtATime(t) ==
    /\ mainpc = "recv"
    /\ pc[t] = "wait"
    /\ \A u \in Tasks : pc[u] \notin {"resolv", "publish"}
    /\ argv.iface[t].interval > 0
    /\ \E r \in {ipaddr(os) : os \in HostAddrs(argv.iface[t].name)} :
        IF r.err # NoErr
        THEN EnumFailed(t, r.err)
        ELSE /\ ip' = [ip EXCEPT ![t] = r.n]
             /\ qlog' = [qlog EXCEPT ![t] = <<>>]
             /\ IF Len(r.n) = 0
                THEN AfterResolv(t, "", NoErr)
                ELSE /\ pc' = [pc EXCEPT ![t] = "resolv"]
                     /\ idx' = [idx EXCEPT ![t] = 1]
                     /\ UNCHANGED <<n, rerr, serr, p, lastok, nfail, puts>>
                     /\ perr' = [perr EXCEPT ![t] = NoErr]
    /\ pending' = [pending EXCEPT ![t] = FALSE]
    /\ UNCHANGED <<zone, applied>>
    /\ UNCHANGED <<cmdline, mainpc, argv, exit>>

\* (mutant of Tick) the body of a tick is started as soon as the ticker
\* has fired, also while the body of the tick before it is in progress
TickOverlapping(t) ==
    /\ mainpc = "recv"
    /\ pc[t] = "wait" \/ (pending[t] /\ pc[t] \in {"resolv", "publish"})
    /\ argv.iface[t].interval > 0
    /\ \E r \in {ipaddr(os) : os \in HostAddrs(argv.iface[t].name)} :
        IF r.err # NoErr
        THEN EnumFailed(t, r.err)
        ELSE /\ ip' = [ip EXCEPT ![t] = r.n]
             /\ qlog' = [qlog EXCEPT ![t] = <<>>]
             /\ IF Len(r.n) = 0
                THEN AfterResolv(t, "", NoErr)
                ELSE /\ pc' = [pc EXCEPT ![t] = "resolv"]
                     /\ idx' = [idx EXCEPT ![t] = 1]
                     /\ UNCHANGED <<n, rerr, serr, p, lastok, nfail, puts>>
                     /\ perr' = [perr EXCEPT ![t] = NoErr]
    /\ pending' = [pending EXCEPT ![t] = FALSE]
    /\ UNCHANGED <<zone, applied>>
    /\ UNCHANGED <<cmdline, mainpc, argv, exit>>

\* run: the loop receives a tick from the ticker's channel (one that waited
\* there, or one that fires now); ipaddr(ift.name); resolv is entered
Tick(t) ==
    /\ mainpc = "recv"
    /\ pc[t] = "wait"
    /\ argv.iface[t].interval > 0
    /\ \E r \in {ipaddr(os) : os \in HostAddrs(argv.iface[t].name)} :
        IF r.err # NoErr
        THEN EnumFailed(t, r.err)
        ELSE /\ ip' = [ip EXCEPT ![t] = r.n]
             /\ qlog' = [qlog EXCEPT ![t] = <<>>]
             /\ IF Len(r.n) = 0
                THEN AfterResolv(t, "", NoErr)
                ELSE /\ pc' = [pc EXCEPT ![t] = "resolv"]
                     /\ idx' = [idx EXCEPT ![t] = 1]
                     /\ UNCHANGED <<n, rerr, serr, p, lastok, nfail, puts>>
                     /\ perr' = [perr EXCEPT ![t] = NoErr]
    /\ pending' = [pending EXCEPT ![t] = FALSE]
    /\ UNCHANGED <<zone, applied>>
    /\ UNCHANGED <<cmdline, mainpc, argv, exit>>

NoAnswer == [err |-> NoErr, ipaddr |-> <<>>]

\* resolv: one iteration of the loop over the candidates
Resolv(t) ==
    /\ mainpc = "recv"
    /\ pc[t] = "resolv"
    /\ LET ift == argv.iface[t]
           a == ip[t][idx[t]]
       IN  \E ans \in (IF IsReflect(ift.strategy) THEN Answers ELSE {NoAnswer}) :
            LET r == try(ift.strategy, a, ans)
                d == dial(ift.strategy, a, argv.service)
                q == lookup(argv.service)
            IN  /\ qlog' = [qlog EXCEPT ![t] =
                              IF IsReflect(ift.strategy)
                              THEN Append(@, [LocalAddr |-> d.LocalAddr,
                                              network |-> d.network,
                                              ns |-> d.ns, fn |-> q.fn,
                                              name |-> q.name, ans |-> ans])
                              ELSE @]
                /\ IF r.ret
                   THEN AfterResolv(t, r.n, NoErr)
                   ELSE IF idx[t] < Len(ip[t])
                   THEN /\ idx' = [idx EXCEPT ![t] = @ + 1]
                        /\ UNCHANGED <<pc, n, rerr, p, serr, lastok, nfail,
                                       perr, puts>>
                   ELSE AfterResolv(t, resolvNone.n, resolvNone.err)
    /\ UNCHANGED <<pending, zone, applied>>
    /\ UNCHANGED <<cmdline, mainpc, argv, exit, ip>>

\* (mutant of PublishReturn) a publish call that returns an error puts p
\* back to the address of the last call that succeeded
PublishReturnRollsBack(t) ==
    /\ mainpc = "recv"
    /\ pc[t] = "publish"
    /\ \E out \in HttpOutcomes :
        /\ lastok' = [lastok EXCEPT ![t] =
                         IF publishErr(out) = NoErr THEN n[t] ELSE @]
        /\ p' = [p EXCEPT ![t] =
                    IF publishErr(out) = NoErr THEN @ ELSE lastok[t]]
        /\ perr' = [perr EXCEPT ![t] = publishErr(out)]
    /\ pc' = [pc EXCEPT ![t] = "wait"]
    /\ applied' = [applied EXCEPT ![t] = FALSE]
    /\ UNCHANGED <<pending, zone>>
    /\ UNCHANGED <<cmdline, mainpc, argv, exit, ip, idx, n, rerr, serr,
                   qlog, nfail, puts>>

\* (mutant of PublishReturn) a publish error is sent on errch and ends the
\* task
PublishReturnSends(t) ==
    /\ mainpc = "recv"
    /\ pc[t] = "publish"
    /\ \E out \in HttpOutcomes :
        /\ perr' = [perr EXCEPT ![t] = publishErr(out)]
        /\ IF publishErr(out) = NoErr
           THEN /\ lastok' = [lastok EXCEPT ![t] = n[t]]
                /\ pc' = [pc EXCEPT ![t] = "wait"]
                /\ UNCHANGED serr
           ELSE /\ serr' = [serr EXCEPT ![t] = publishErr(out)]
                /\ pc' = [pc EXCEPT ![t] = "send"]
                /\ UNCHANGED lastok
    /\ applied' = [applied EXCEPT ![t] = FALSE]
    /\ UNCHANGED <<pending, zone>>
    /\ UNCHANGED <<cmdline, mainpc, argv, exit, ip, idx, n, rerr, p, qlog,
                   nfail, puts>>

\* publish returns: the HTTP exchange ends, run logs an error and continues
PublishReturn(t) ==
    /\ mainpc = "recv"
    /\ pc[t] = "publish"
    /\ \E out \in HttpOutcomes :
        /\ lastok' = [lastok EXCEPT ![t] =
                         IF publishErr(out) = NoErr THEN n[t] ELSE @]
        /\ perr' = [perr EXCEPT ![t] = publishErr(out)]
    /\ pc' = [pc EXCEPT ![t] = "wait"]
    /\ applied' = [applied EXCEPT ![t] = FALSE]
    /\ UNCHANGED <<pending, zone>>
    /\ UNCHANGED <<cmdline, mainpc, argv, exit, ip, idx, n, rerr, p, serr,
                   qlog, nfail, puts>>

Next ==
    \/ MainArgs
    \/ MainGo
    \/ MainRecv
    \/ \E t \in Tasks : Tick(t)
    \/ \E t \in Tasks : Resolv(t)
    \/ \E t \in Tasks : PublishReturn(t)

Spec == Init /\ [][Next]_vars

\* ------------------------------------------- run of the 0.1.0 source
\* main.go (its second package text, lines 340-786) differs from the 0.1.1
\* source in run, and in knowing no cloudflare service: a resolution error
\* is handed to Fatalln by the task itself, and a publish error is sent on
\* errch.

\* run (0.1.0), lines 584-588: argv.stderr.Fatalln(err) ends the process
\* from within the task; the send after it is never reached
ResolvFailed010(t, e) ==
    /\ pc' = [pc EXCEPT ![t] = "fatal"]
    /\ mainpc' = "exit"
    /\ exit' = [code |-> 1, err |-> e]
    /\ nfail' = [nfail EXCEPT ![t] = IF @ < MaxFails THEN @ + 1 ELSE @]
    /\ perr' = [perr EXCEPT ![t] = NoErr]
    /\ UNCHANGED <<p, serr, lastok, puts>>

AfterResolv010(t, nn, e) ==
    /\ n' = [n EXCEPT ![t] = nn]
    /\ rerr' = [rerr EXCEPT ![t] = e]
    /\ idx' = [idx EXCEPT ![t] = 0]
    /\ IF e # NoErr THEN ResolvFailed010(t, e)
       ELSE Compare(t, nn) /\ UNCHANGED <<mainpc, exit>>

Tick010(t) ==
    /\ mainpc = "recv"
    /\ pc[t] = "wait"
    /\ argv.iface[t].interval > 0
    /\ \E r \in {ipaddr(os) : os \in HostAddrs(argv.iface[t].name)} :
        IF r.err # NoErr
        THEN EnumFailed(t, r.err) /\ UNCHANGED <<mainpc, exit>>
        ELSE /\ ip' = [ip EXCEPT ![t] = r.n]
             /\ qlog' = [qlog EXCEPT ![t] = <<>>]
             /\ IF Len(r.n) = 0
                THEN AfterResolv010(t, "", NoErr)
                ELSE /\ pc' = [pc EXCEPT ![t] = "resolv"]
                     /\ idx' = [idx EXCEPT ![t] = 1]
                     /\ perr' = [perr EXCEPT ![t] = NoErr]
                     /\ UNCHANGED <<n, rerr, serr, p, lastok, nfail, puts,
                                    mainpc, exit>>
    /\ pending' = [pending EXCEPT ![t] = FALSE]
    /\ UNCHANGED <<zone, applied>>
    /\ UNCHANGED <<cmdline, argv>>

Resolv010(t) ==
    /\ mainpc = "recv"
    /\ pc[t] = "resolv"
    /\ LET ift == argv.iface[t]
           a == ip[t][idx[t]]
       IN  \E ans \in (IF IsReflect(ift.strategy) THEN Answers ELSE {NoAnswer}) :
            LET r == try(ift.strategy, a, ans)
                d == dial(ift.strategy, a, argv.service)
                q == lookup(argv.service)
            IN  /\ qlog' = [qlog EXCEPT ![t] =
                              IF IsReflect(ift.strategy)
                              THEN Append(@, [LocalAddr |-> d.LocalAddr,
                                              network |-> d.network,
                                              ns |-> d.ns, fn |-> q.fn,
                                              name |-> q.name, ans |-> ans])
                              ELSE @]
                /\ IF r.ret
                   THEN AfterResolv010(t, r.n, NoErr)
                   ELSE IF idx[t] < Len(ip[t])
                   THEN /\ idx' = [idx EXCEPT ![t] = @ + 1]
                        /\ UNCHANGED <<pc, n, rerr, p, serr, lastok, nfail,
                                       perr, puts, mainpc, exit>>
                   ELSE AfterResolv010(t, resolvNone.n, resolvNone.err)
    /\ UNCHANGED <<pending, zone, applied>>
    /\ UNCHANGED <<cmdline, argv, ip>>

\* run (0.1.0), lines 599-602: a publish error is sent on errch and the
\* loop is left
PublishReturn010(t) ==
    /\ mainpc = "recv"
    /\ pc[t] = "publish"
    /\ \E out \in HttpOutcomes :
        /\ perr' = [perr EXCEPT ![t] = publishErr(out)]
        /\ IF publishErr(out) = NoErr
           THEN /\ lastok' = [lastok EXCEPT ![t] = n[t]]
                /\ pc' = [pc EXCEPT ![t] = "wait"]
                /\ UNCHANGED serr
           ELSE /\ serr' = [serr EXCEPT ![t] = publishErr(out)]
                /\ pc' = [pc EXCEPT ![t] = "send"]
                /\ UNCHANGED lastok
    /\ applied' = [applied EXCEPT ![t] = FALSE]
    /\ UNCHANGED <<pending, zone>>
    /\ UNCHANGED <<cmdline, mainpc, argv, exit, ip, idx, n, rerr, p, qlog,
                   nfail, puts>>

Next010 ==
    \/ MainArgs
    \/ MainGo
    \/ MainRecv
    \/ \E t \in Tasks : Tick010(t)
    \/ \E t \in Tasks : Resolv010(t)
    \/ \E t \in Tasks : PublishReturn010(t)

CmdLines010 == {cl \in CmdLines : ToLower(cl.service) # Cloudflare}

Spec010 == InitWith(CmdLines010) /\ [][Next010]_vars

\* time.Tick's timer fires while the body of a tick is in progress: the
\* tick is put in the ticker's channel, which holds one tick (a tick that
\* finds the channel full is dropped).
TickerFires(t) ==
    /\ mainpc = "recv"
    /\ pc[t] \in {"resolv", "publish"}
    /\ argv.iface[t].interval > 0
    /\ ~pending[t]
    /\ pending' = [pending EXCEPT ![t] = TRUE]
    /\ UNCHANGED <<cmdline, mainpc, argv, exit, pc, ip, idx, n, rerr, p, serr,
                   qlog, lastok, nfail, perr, puts, zone, applied>>

NextTicker ==
    \/ MainArgs
    \/ MainGo
    \/ MainRecv
    \/ \E t \in Tasks : Tick(t)
    \/ \E t \in Tasks : Resolv(t)
    \/ \E t \in Tasks : PublishReturn(t)
    \/ \E t \in Tasks : TickerFires(t)

\* Slow ticks: tasks whose ticker may fire during a lookup or an upsert.
TickerCmdLines ==
    {cl \in CmdLines :
        /\ ~cl.dryrun
        /\ \/ Len(cl.pos) > 2
           \/ /\ Len(cl.pos) = 2
              /\ Split(cl.pos[2])[1] = <<"eth1">>}

SpecTicker == InitWith(TickerCmdLines) /\ [][NextTicker]_vars

\* The provider followed: the request of the publish call task t is in
Request(t) == publish(argv, argv.iface[t].label, n[t]).req

\* The provider applies a PUT: the record of the request's label and type
\* is replaced
Upsert(z, req) ==
    {r \in z : ~(r.label = req.label /\ r.rtype = req.rtype)} \cup {req}

\* The provider takes the PUT of task t, at some time between the request
\* (c.Do) and the end of the exchange.
ProviderApplies(t) ==
    /\ mainpc = "recv"
    /\ pc[t] = "publish"
    /\ ~applied[t]
    /\ applied' = [applied EXCEPT ![t] = TRUE]
    /\ zone' = Upsert(zone, Request(t))
    /\ UNCHANGED <<cmdline, mainpc, argv, exit, pc, ip, idx, n, rerr, p, serr,
                   qlog, lastok, nfail, perr, pending, puts>>

NextRace ==
    \/ MainArgs
    \/ MainGo
    \/ MainRecv
    \/ \E t \in Tasks : Tick(t)
    \/ \E t \in Tasks : Resolv(t)
    \/ \E t \in Tasks : PublishReturn(t)
    \/ \E t \in Tasks : ProviderApplies(t)

\* Several tasks, two of them with the same label.
RaceCmdLines == {cl \in CmdLines : Len(cl.pos) = 4 /\ ~args(cl).exit}

SpecRace == InitWith(RaceCmdLines) /\ [][NextRace]_vars

\* The supervisor with several tasks: main's receive is taken once a task
\* is blocked in its send (the Go scheduler wakes the receiver).
SupCmdLines == {cl \in CmdLines : Len(cl.pos) > 2}

FairSpec == InitWith(SupCmdLines) /\ [][Next]_vars /\ WF_vars(MainRecv)

\* The parsing of one interface specification: every specification of up to
\* MaxFields fields, the i-th field drawn from the strings met in that place.
FieldChoices(i) ==
    CASE i = 1 -> {<<"eth0">>, <<>>}
      [] i = 2 -> {<<"host1">>, <<>>}
      [] i = 3 -> {<<"inet">>, <<"inet4">>, <<"inet6">>, <<"resolv">>,
                   <<"resolv4">>, <<"resolv6">>, <<"assign">>, <<"assigned">>,
                   <<"resolve">>, <<"Inet4">>, <<>>}
      [] i = 4 -> {<<"30s">>, <<"1m">>, <<"0s">>, <<"-5s">>, <<"soon">>, <<>>}
      [] OTHER -> {<<"x">>, <<>>}

RECURSIVE FieldLists(_)
FieldLists(k) ==
    IF k = 0 THEN {<<>>}
    ELSE {Append(fs, f) : fs \in FieldLists(k - 1), f \in FieldChoices(k)}

ToIfCmdLines ==
    {Cl(<<dom, Join(fs)>>, FALSE, "google", DefaultPollInterval) :
        fs \in UNION {FieldLists(k) : k \in 1 .. MaxFields}}

SpecToIf == InitWith(ToIfCmdLines) /\ [][MainArgs]_vars

\* publish on its own: one task of a valid configuration calls
\* argv.publish(ift.label, n) for any string n, again after every return
\* from an HTTP exchange; a call that makes no request returns to a caller
\* that is done.
PublishInputs ==
    {"203.0.113.5", "198.51.100.7", "2001:db8::1", "fe80::1", "not-an-ip", ""}

PublishCmdLines ==
    {cl \in CmdLines : ~args(cl).exit /\ Len(args(cl).argv.iface) = 1}

InitPublish ==
    /\ cmdline \in PublishCmdLines
    /\ argv = args(cmdline).argv
    /\ mainpc = "recv" /\ exit = Running
    /\ pc = <<"wait">> /\ ip = <<<<>>>> /\ idx = <<0>>
    /\ n \in {<<a>> : a \in PublishInputs}
    /\ p = n /\ rerr = <<NoErr>> /\ serr = <<NoErr>> /\ qlog = <<<<>>>>
    /\ lastok = <<"">> /\ nfail = <<0>> /\ perr = <<NoErr>>
    /\ pending = <<FALSE>> /\ applied = <<FALSE>>
    /\ puts = {} /\ zone = {}

PublishCall(t) ==
    /\ pc[t] = "wait"
    /\ LET c == publish(argv, argv.iface[t].label, n[t]) IN
       IF c.do
       THEN /\ pc' = [pc EXCEPT ![t] = "publish"]
            /\ puts' = puts \cup {c.req}
            /\ perr' = [perr EXCEPT ![t] = NoErr]
            /\ UNCHANGED lastok
       ELSE /\ pc' = [pc EXCEPT ![t] = "done"]
            /\ lastok' = [lastok EXCEPT ![t] = n[t]]
            /\ perr' = [perr EXCEPT ![t] = NoErr]
            /\ UNCHANGED puts
    /\ UNCHANGED <<pending, zone, applied>>
    /\ UNCHANGED <<cmdline, mainpc, argv, exit, ip, idx, n, rerr, p, serr,
                   qlog, nfail>>

NextPublish == \E t \in Tasks : PublishCall(t) \/ PublishReturn(t)

SpecPublish == InitPublish /\ [][NextPublish]_vars

\* ----------------------------------------------------------------- claims

\* C1: with dry-run off, a tick that resolves a non-empty address after a
\* tick that resolved without error invokes the publisher exactly when the
\* address differs from the one the previous tick resolved (unset before
\* the first tick), and the request made is for this tick's address.
C1_PublishOnChangeOnly ==
    [][\A t \in DOMAIN pc :
         (/\ ~argv.dryrun
          /\ pc[t] = "resolv" /\ idx'[t] = 0
          /\ rerr[t] = NoErr /\ rerr'[t] = NoErr /\ n'[t] # "")
         => /\ (pc'[t] = "publish") <=> (n'[t] # n[t])
            /\ pc'[t] = "publish" =>
                 \E rt \in {"A", "AAAA"} :
                    puts' = puts \cup {[label |-> argv.iface[t].label,
                                        rtype |-> rt, value |-> n'[t]]}
            /\ pc'[t] # "publish" => puts' = puts]_vars

\* C1 witness: the address changed from one that was published to another,
\* and the publisher is invoked for the new one.
C1_Witness ==
    \E t \in DOMAIN pc :
        /\ ~argv.dryrun /\ pc[t] = "publish"
        /\ n[t] = "198.51.100.7" /\ lastok[t] = "203.0.113.5"

\* C2 (the claim as stated): with dry-run off, whenever a task waits for its
\* next tick the value it will compare with is the address of its last
\* publish call that returned success.
C2_ComparesWithLastPublished ==
    \A t \in DOMAIN pc :
        (~argv.dryrun /\ pc[t] = "wait") => p[t] = lastok[t]

\* C3: a tick whose resolution returns an error changes nothing: no publish
\* call, p kept, nothing sent on errch, the process still running, and the
\* task back on its ticker, able to tick again.
C3_FailedResolutionSkipsTick ==
    [][\A t \in DOMAIN pc :
         (pc[t] = "resolv" /\ idx'[t] = 0 /\ rerr'[t] # NoErr)
         => /\ pc'[t] = "wait"
            /\ p' = p /\ puts' = puts /\ lastok' = lastok /\ serr' = serr
            /\ \A u \in DOMAIN pc : pc'[u] = "send" => pc[u] = "send"
            /\ exit' = Running /\ mainpc' = "recv"
            /\ argv'.iface[t].interval > 0]_vars

\* C3 witness: after consecutive failed ticks the task is in a further tick.
C3_Witness ==
    \E t \in DOMAIN pc :
        nfail[t] = MaxFails /\ pc[t] = "resolv" /\ mainpc = "recv"

\* C4: when ipaddr fails on a tick the task goes to send exactly that error
\* on errch, without resolving or publishing; from then on it changes
\* nothing, and the only step it takes is the delivery of that error to
\* main, after which it has returned.
C4_EnumerationFailureEndsTask ==
    [][\A t \in DOMAIN pc :
         /\ (serr[t] = NoErr /\ serr'[t] # NoErr)
            => /\ pc[t] = "wait" /\ pc'[t] = "send"
               /\ serr'[t] \in {errNoSuchInterface, errAddrs, errParseCIDR}
               /\ idx'[t] = 0 /\ qlog'[t] = <<>>
               /\ p' = p /\ puts' = puts /\ lastok' = lastok
         /\ serr[t] # NoErr
            => /\ pc[t] \in {"send", "done"}
               /\ ip'[t] = ip[t] /\ idx'[t] = idx[t] /\ n'[t] = n[t]
               /\ rerr'[t] = rerr[t] /\ p'[t] = p[t] /\ serr'[t] = serr[t]
               /\ qlog'[t] = qlog[t] /\ lastok'[t] = lastok[t]
               /\ pc'[t] # pc[t]
                    => /\ pc[t] = "send" /\ pc'[t] = "done"
                       /\ mainpc' = "exit"
                       /\ exit' = [code |-> 1, err |-> serr[t]]]_vars

\* C4 witness: a task that had published ran into an enumeration error, and
\* its error was delivered.
C4_Witness ==
    \E t \in DOMAIN pc :
        /\ pc[t] = "done" /\ serr[t] = errParseCIDR /\ p[t] # ""
        /\ exit = [code |-> 1, err |-> errParseCIDR]

\* Some task is blocked sending its error on errch.
AnySending == \E t \in DOMAIN pc : pc[t] = "send"

\* The process exited after tasks were started: with the error of the one
\* task whose send completed.
ExitedWithReceived ==
    (mainpc = "exit" /\ DOMAIN pc # {})
    => \E u \in DOMAIN pc :
          /\ pc[u] = "done"
          /\ exit = [code |-> 1, err |-> serr[u]]
          /\ \A v \in DOMAIN pc : pc[v] = "done" => v = u

\* C5: once a task is blocked sending its error, the process exits; it
\* exits with the error of the one task whose send main received, whatever
\* the other tasks are doing.
C5_FirstErrorExits ==
    /\ []ExitedWithReceived
    /\ AnySending ~> (mainpc = "exit")

\* C5 witness: task 2 of 3 failed and the process exited with its error
\* while task 1 was in a reflection query and task 3 in a publish call.
C5_Witness ==
    /\ Len(pc) = 3 /\ mainpc = "exit"
    /\ pc[2] = "done" /\ exit = [code |-> 1, err |-> errAddrs]
    /\ pc[1] = "resolv" /\ pc[3] = "publish"

\* Task t took a step: something of its own changed.  (From "wait" the one
\* step a task takes is a tick; a tick that leaves it in "wait" is one whose
\* candidate list was empty.)
Stepped(t) ==
    <<pc[t], ip[t], idx[t], n[t], rerr[t], p[t], serr[t], qlog[t], lastok[t],
      nfail[t], perr[t]>> #
    <<pc'[t], ip'[t], idx'[t], n'[t], rerr'[t], p'[t], serr'[t], qlog'[t],
      lastok'[t], nfail'[t], perr'[t]>>

\* C6: with dry-run on, no record upsert is ever handed to the HTTP client
\* and no publish call is in flight, while every tick that resolves an
\* address other than p assigns it to p.
C6_DryRunNeverUpserts ==
    [][argv'.dryrun =>
         /\ puts' = {}
         /\ \A t \in DOMAIN pc' : pc'[t] # "publish"
         /\ \A t \in DOMAIN pc :
              (/\ \/ pc[t] = "resolv" /\ idx'[t] = 0
                  \/ pc[t] = "wait" /\ pc'[t] = "wait" /\ Stepped(t)
               /\ rerr'[t] = NoErr /\ n'[t] # p[t])
              => p'[t] = n'[t] /\ p'[t] # p[t]]_vars

\* C6 witness: in a dry run a tick resolved an address and p holds it, with
\* no upsert made.
C6_Witness ==
    /\ argv.dryrun /\ puts = {}
    /\ \E t \in DOMAIN pc :
          /\ pc[t] = "wait" /\ p[t] = "198.51.100.7" /\ n[t] = p[t]
          /\ ip[t] = <<ipC, ipB>> /\ argv.iface[t].strategy = inet4

\* A tick's resolution has returned for a non-empty candidate list.
Resolved(t) == pc[t] \in {"wait", "publish"} /\ ip[t] # <<>>

\* A lookup result that is an answer: no error, not empty, its first string
\* the text of an address.
ValidAnswer(ans) ==
    /\ ans.err = NoErr
    /\ ans.ipaddr # <<>>
    /\ ans.ipaddr[1] \in {"203.0.113.5", "198.51.100.7", "2001:db8::1"}

\* C7: under a reflection strategy the j-th lookup is made for the j-th
\* candidate, every lookup before the last one got no valid answer, and the
\* resolution returns the first string of the first valid answer, after
\* which no lookup is made.
C7_ReflectFirstValidAnswer ==
    \A t \in DOMAIN pc :
        IsReflect(argv.iface[t].strategy) =>
          /\ pc[t] = "resolv" =>
                /\ Len(qlog[t]) = idx[t] - 1
                /\ \A j \in 1 .. Len(qlog[t]) : ~ValidAnswer(qlog[t][j].ans)
          /\ Resolved(t) =>
                LET k == Len(qlog[t]) IN
                /\ k >= 1 /\ k <= Len(ip[t])
                /\ \A j \in 1 .. (k - 1) : ~ValidAnswer(qlog[t][j].ans)
                /\ argv.iface[t].strategy = resolv4 =>
                      \A j \in 1 .. k : qlog[t][j].LocalAddr = ip[t][j]
                /\ IF ValidAnswer(qlog[t][k].ans)
                   THEN rerr[t] = NoErr /\ n[t] = qlog[t][k].ans.ipaddr[1]
                   ELSE k = Len(ip[t]) /\ rerr[t] # NoErr /\ n[t] = ""

\* C7 witness: every lookup but the last failed with an error, the last one
\* was answered, and its answer is what the resolution returned, with
\* candidates left untried.
C7_Witness ==
    \E t \in DOMAIN pc :
        /\ IsReflect(argv.iface[t].strategy) /\ Resolved(t)
        /\ Len(qlog[t]) = MaxAddrs - 1 /\ Len(ip[t]) = MaxAddrs
        /\ \A j \in 1 .. (MaxAddrs - 2) : qlog[t][j].ans.err = errLookup
        /\ qlog[t][MaxAddrs - 1].ans.ipaddr = <<"2001:db8::1", "203.0.113.5">>
        /\ n[t] = "2001:db8::1" /\ rerr[t] = NoErr

\* Candidate a is of the family of the local strategy s.
FamilyMatches(s, a) == (s = inet4 /\ Len(a) = 4) \/ (s = inet6 /\ Len(a) = 8)

\* C8: under a local strategy no lookup is made, and when a candidate of
\* the strategy's family exists the resolution returns the text of the
\* first such candidate in list order.
C8_LocalFirstOfFamily ==
    \A t \in DOMAIN pc :
        ~IsReflect(argv.iface[t].strategy) =>
          /\ qlog[t] = <<>>
          /\ Resolved(t) =>
                LET s == argv.iface[t].strategy
                    match == {j \in 1 .. Len(ip[t]) : FamilyMatches(s, ip[t][j])}
                IN  match # {} =>
                      \E j \in match :
                         /\ \A i \in match : j <= i
                         /\ rerr[t] = NoErr
                         /\ n[t] = String(ip[t][j])
                         /\ n[t] \in (IF s = inet4
                                      THEN {"203.0.113.5", "198.51.100.7"}
                                      ELSE {"2001:db8::1"})

\* C8 witness: LocalV6 passed over an IPv4 candidate that came first.
C8_Witness ==
    \E t \in DOMAIN pc :
        /\ argv.iface[t].strategy = inet6 /\ Resolved(t)
        /\ ip[t] = <<ipA, ipC>> /\ n[t] = "2001:db8::1"

\* No candidate of addr was accepted: none is of the local strategy's
\* family; every one was looked up without a valid answer.
NoneAccepted(s, addr, log) ==
    IF IsReflect(s)
    THEN /\ Len(log) = Len(addr)
         /\ \A j \in 1 .. Len(log) : ~ValidAnswer(log[j].ans)
    ELSE \A j \in 1 .. Len(addr) : ~FamilyMatches(s, addr[j])

\* C9: a resolution over an empty candidate list returns the empty address
\* with no error and no lookup; over a non-empty list it returns the
\* no-valid-addresses error exactly when no candidate was accepted, and no
\* other error.
C9_NoValidAddressIffNoneAccepted ==
    [][\A t \in DOMAIN pc :
         /\ (pc[t] = "wait" /\ pc'[t] = "wait" /\ Stepped(t))
            => /\ ip'[t] = <<>> /\ n'[t] = "" /\ rerr'[t] = NoErr
               /\ qlog'[t] = <<>> /\ pc'[t] = "wait"
         /\ (pc[t] = "resolv" /\ idx'[t] = 0)
            => /\ ip'[t] # <<>>
               /\ rerr'[t] \in {NoErr, errNoValidAddresses}
               /\ (rerr'[t] = errNoValidAddresses)
                    <=> NoneAccepted(argv.iface[t].strategy, ip'[t], qlog'[t])
               /\ rerr'[t] # NoErr => n'[t] = ""]_vars

\* C9 witness: a reflection strategy looked up every candidate in vain.
C9_Witness ==
    \E t \in DOMAIN pc :
        /\ IsReflect(argv.iface[t].strategy) /\ Resolved(t)
        /\ Len(qlog[t]) = MaxAddrs /\ rerr[t] = errNoValidAddresses

\* C10: a specification of 1 to 4 fields gives the ifT of the defaulting
\* rules (1 field: the label is the interface name; up to 2 fields: inet4;
\* up to 3 fields: the -poll-interval value), provided its strategy and
\* duration fields are accepted; one of more than 4 fields is refused with
\* the invalid-specification error.
C10_ToIfDefaults ==
    (mainpc # "args" /\ Len(cmdline.pos) = 2) =>
      LET x == Split(cmdline.pos[2])
          k == Len(x)
          parsed == mainpc = "go" /\ exit = Running /\ Len(argv.iface) = 1
          refused(e) == mainpc = "exit" /\ exit = [code |-> 1, err |-> e]
          okS == k < 3 \/ strategy(x[3]).err = NoErr
          okD == k < 4 \/ ParseDuration(x[4]).err = NoErr
      IN  /\ k >= 1
          /\ k > 4 => refused(errInvalidSpecification)
          /\ (k <= 4 /\ ~okS) => refused(errInvalidStrategy)
          /\ (k <= 4 /\ okS /\ ~okD) => refused(errParseDuration)
          /\ (k <= 4 /\ okS /\ okD) =>
                /\ parsed
                /\ argv.iface[1].name = x[1]
                /\ argv.iface[1].label = (IF k = 1 THEN x[1] ELSE x[2])
                /\ argv.iface[1].strategy =
                      (IF k <= 2 THEN inet4 ELSE strategy(x[3]).s)
                /\ argv.iface[1].interval =
                      (IF k <= 3 THEN cmdline.pollInterval
                       ELSE ParseDuration(x[4]).d)

\* C10 witness: a specification of four fields was parsed into an ifT with
\* its own strategy and interval.
C10_Witness ==
    /\ mainpc = "go"
    /\ cmdline.pos[2] = <<"eth0", ":", "host1", ":", "resolv6", ":", "30s">>
    /\ argv.iface = <<ifT(<<"eth0">>, <<"host1">>, resolv6, 30)>>

\* The strategy field of the one interface specification of the command
\* line is parsed by the table l4 -> inet4, l6 -> inet6, r4 -> resolv4,
\* r6 -> resolv6: a token of the table is never refused as a strategy and
\* gives the ifT its strategy; every other token ends the process with the
\* invalid-strategy error and no ifT.
StrategyTable(l4, l6, r4, r6) ==
    (mainpc # "args" /\ Len(cmdline.pos) = 2
       /\ Len(Split(cmdline.pos[2])) \in {3, 4}) =>
      LET x == Split(cmdline.pos[2])
          tok == x[3]
          maps(toks, s) ==
              tok \in toks =>
                /\ exit.err # errInvalidStrategy
                /\ Len(x) = 3 => mainpc = "go"
                /\ mainpc = "go" =>
                      Len(argv.iface) = 1 /\ argv.iface[1].strategy = s
      IN  /\ maps(l4, inet4) /\ maps(l6, inet6)
          /\ maps(r4, resolv4) /\ maps(r6, resolv6)
          /\ tok \notin (l4 \cup l6 \cup r4 \cup r6) =>
                /\ mainpc = "exit"
                /\ exit = [code |-> 1, err |-> errInvalidStrategy]
                /\ argv.iface = <<>>

\* C11 (the claim as stated): assign, assigned, inet, inet4 give LocalV4,
\* inet6 LocalV6, resolve, resolv, resolv4 ReflectV4, resolv6 ReflectV6, and
\* every other token is rejected with the invalid-strategy error and no Task.
C11_StrategyTokensAsStated ==
    StrategyTable({<<"assign">>, <<"assigned">>, <<"inet">>, <<"inet4">>},
                  {<<"inet6">>},
                  {<<"resolve">>, <<"resolv">>, <<"resolv4">>},
                  {<<"resolv6">>})

\* C11 (amended): inet, inet4 give LocalV4, inet6 LocalV6, resolv, resolv4
\* ReflectV4, resolv6 ReflectV6, and every other token (assign, assigned and
\* resolve among them) is rejected with the invalid-strategy error and no
\* Task.
C11_StrategyTokens ==
    StrategyTable({<<"inet">>, <<"inet4">>}, {<<"inet6">>},
                  {<<"resolv">>, <<"resolv4">>}, {<<"resolv6">>})

\* C11 witness: the token resolve was refused as a strategy.
C11_Witness ==
    /\ mainpc = "exit"
    /\ cmdline.pos[2] = <<"eth0", ":", "host1", ":", "resolve">>
    /\ exit = [code |-> 1, err |-> errInvalidStrategy]
    /\ argv.iface = <<>>

\* The interface specification v is malformed: more than four fields, a
\* third field that is no strategy token, or a fourth that is no duration.
Malformed(v) ==
    LET x == Split(v) IN
    \/ Len(x) > 4
    \/ /\ Len(x) >= 3
       /\ x[3] \notin {<<"inet">>, <<"inet4">>, <<"inet6">>, <<"resolv">>,
                       <<"resolv4">>, <<"resolv6">>}
    \/ /\ Len(x) = 4
       /\ x[4] \notin {<<"30s">>, <<"1m">>, <<"0s">>, <<"-5s">>}

\* C12: when one of the interface specifications of the command line is
\* malformed, or the service is none of the four known, the process exits
\* from args() with status 1: no task is ever started, whatever was parsed
\* before the bad specification, and no tick, lookup or upsert happens.
C12_BadConfigStartsNothing ==
    (/\ Len(cmdline.pos) >= 2
     /\ \/ \E i \in 2 .. Len(cmdline.pos) : Malformed(cmdline.pos[i])
        \/ cmdline.service \notin {"akamai", "AKAMAI", "cloudflare",
                                    "CloudFlare", "google", "Google",
                                    "opendns", "OpenDNS"})
    => /\ mainpc \in {"args", "exit"}
       /\ mainpc = "exit" => exit.code = 1 /\ exit.err # NoErr
       /\ argv = NoArgv /\ pc = <<>> /\ ip = <<>> /\ qlog = <<>> /\ p = <<>>
       /\ puts = {}

\* C12 witness: the third field of the second specification is no strategy
\* token; the process exited although the first specification had parsed.
C12_Witness ==
    /\ mainpc = "exit" /\ Len(cmdline.pos) = 3
    /\ toIfOne(cmdline.pos[2], cmdline.pollInterval).err = NoErr
    /\ exit = [code |-> 1, err |-> errInvalidStrategy]
    /\ pc = <<>> /\ puts = {}

\* C13 (the claim as stated): every task that main started has an interval
\* greater than zero.
C13_StartedIntervalPositive ==
    \A t \in DOMAIN pc : argv.iface[t].interval > 0

\* C14 (the claim as stated): the address a task resolved is of the family
\* of its strategy (IPv4 for inet4 and resolv4, IPv6 for inet6 and resolv6),
\* and so is the type of the record it upserts for it.
C14_ResolvedFamilyOfStrategy ==
    \A t \in DOMAIN pc :
        LET v4 == argv.iface[t].strategy \in {inet4, resolv4} IN
        /\ n[t] # "" => (v4 <=> Len(ParseIP(n[t])) = 4)
        /\ pc[t] = "publish" =>
              [label |-> argv.iface[t].label,
               rtype |-> IF v4 THEN "A" ELSE "AAAA",
               value |-> n[t]] \in puts

\* C15: with dry-run off, publish called with the text of an IPv4 address
\* makes a request for the A record of the label with that text as its
\* value, called with the text of an IPv6 address one for the AAAA record;
\* called with a string that is no address (the empty string too) it makes
\* no request and returns nil.
C15_RecordTypeByFamily ==
    [][\A t \in DOMAIN pc :
         (pc[t] = "wait" /\ Stepped(t)) =>
           LET req(rt) == [label |-> argv.iface[t].label, rtype |-> rt,
                           value |-> n[t]]
               v4 == n[t] \in {"203.0.113.5", "198.51.100.7"}
               v6 == n[t] \in {"2001:db8::1", "fe80::1"}
               sent(rt) == /\ pc'[t] = "publish"
                           /\ puts' = puts \cup {req(rt)}
               nothing == /\ pc'[t] = "done" /\ puts' = puts
                          /\ perr'[t] = NoErr
           IN  /\ (v4 /\ ~argv.dryrun) => sent("A")
               /\ (v6 /\ ~argv.dryrun) => sent("AAAA")
               /\ ~(v4 \/ v6) => nothing
               /\ argv.dryrun => nothing]_vars

\* C15 witness: publish was called with the text of an IPv6 address and the
\* request for the AAAA record is in flight.
C15_Witness ==
    /\ pc = <<"publish">> /\ n = <<"fe80::1">>
    /\ puts = {[label |-> <<"host1">>, rtype |-> "AAAA", value |-> "fe80::1"]}

\* The directory: for each service its nameserver and its question.
Directory ==
    {<<"akamai", "ns1-1.akamaitech.net:53", "LookupHost", "whoami.akamai.net">>,
     <<"cloudflare", "armando.ns.cloudflare.com:53", "LookupTXT",
       "whoami.cloudflare.com">>,
     <<"google", "ns1.google.com:53", "LookupTXT", "o-o.myaddr.l.google.com">>,
     <<"opendns", "resolver1.opendns.com:53", "LookupHost",
       "myip.opendns.com">>}

\* C16: a command line whose service, whatever its case, is none of the
\* directory's keys never gets past args(); once tasks are started the
\* configured service is a key of the directory, and every lookup made is
\* sent to the nameserver of that service with the question of that same
\* service, never reaching the panic of nameserver() or lookup().
C16_ServiceKnownWhileRunning ==
    /\ cmdline.service \notin {"akamai", "AKAMAI", "cloudflare", "CloudFlare",
                                "google", "Google", "opendns", "OpenDNS"}
          => mainpc \in {"args", "exit"} /\ pc = <<>>
    /\ mainpc \in {"go", "recv"} \/ pc # <<>> =>
          /\ argv.service \in {d[1] : d \in Directory}
          /\ \A t \in DOMAIN pc : \A j \in 1 .. Len(qlog[t]) :
                <<argv.service, qlog[t][j].ns, qlog[t][j].fn,
                  qlog[t][j].name>> \in Directory

\* C16 witness: the service was given in upper case and a lookup was made
\* with it.
C16_Witness ==
    /\ cmdline.service = "AKAMAI" /\ argv.service = "akamai"
    /\ \E t \in DOMAIN pc :
          /\ Len(qlog[t]) = 1
          /\ qlog[t][1].ns = "ns1-1.akamaitech.net:53"
          /\ qlog[t][1].name = "whoami.akamai.net"

\* C17 (the claim as stated): once tasks are started the process exits only
\* with an error main received from errch, sent by the one task that then
\* returned; no resolution error is sent on errch or ends the process, and
\* no task ends the process itself.
C17_ExitOnlyThroughErrch ==
    /\ (mainpc = "exit" /\ pc # <<>>) =>
          \E u \in DOMAIN pc :
             pc[u] = "done" /\ exit = [code |-> 1, err |-> serr[u]]
    /\ exit.err # errNoValidAddresses
    /\ \A t \in DOMAIN pc :
          serr[t] # errNoValidAddresses /\ pc[t] # "fatal"

\* C18 (the claim as stated): when a publish call of a task returns an
\* error, the task goes to send that error on errch.
C18_PublishErrorSent ==
    [][\A t \in DOMAIN pc :
         (pc[t] = "publish" /\ pc'[t] # "publish" /\ perr'[t] # NoErr)
         => pc'[t] = "send" /\ serr'[t] = perr'[t]]_vars

\* C18 (amended): when a publish call of a task returns an error, the error
\* is only logged by the task: nothing is sent on errch, main keeps waiting
\* on it, the process keeps running, and the task is back on its ticker.
C18_PublishErrorLogged ==
    [][\A t \in DOMAIN pc :
         (pc[t] = "publish" /\ pc'[t] # "publish" /\ perr'[t] # NoErr)
         => /\ pc'[t] = "wait"
            /\ serr' = serr
            /\ \A u \in DOMAIN pc : pc'[u] = "send" => pc[u] = "send"
            /\ mainpc' = "recv" /\ exit' = Running
            /\ perr'[t] \in {"Put: connection refused", "unexpected EOF"}]_vars

\* C18 witness: a publish call returned a transport error and the task is
\* waiting for its next tick, the process running.
C18_Witness ==
    \E t \in DOMAIN pc :
        /\ perr[t] = "Put: connection refused" /\ pc[t] = "wait"
        /\ serr[t] = NoErr /\ mainpc = "recv" /\ exit = Running

\* C19 (the claim as stated): a tick that resolves the empty address (the
\* interface holds no global unicast address) leaves the task's remembered
\* value p as it was and calls nothing, so that a later tick resolving the
\* address published before it is seen as unchanged.
C19_EmptyTickKeepsRemembered ==
    [][\A t \in DOMAIN pc :
         (/\ pc[t] = "wait" /\ pc'[t] = "wait" /\ Stepped(t)
          /\ ip'[t] = <<>> /\ n'[t] = "" /\ rerr'[t] = NoErr)
         => p'[t] = p[t] /\ lastok'[t] = lastok[t] /\ puts' = puts]_vars

\* C20: the ticks of a task are taken one after the other.  A tick that
\* fires while the body of the tick before it is in progress only waits in
\* the ticker's channel; while a lookup loop is in progress the task's steps
\* are steps of that loop, over the same candidates and one lookup at a
\* time, and while an upsert is in flight the task does nothing else until
\* it returns; a body is started only by a task waiting on its ticker.
C20_TicksSequential ==
    [][\A t \in DOMAIN pc :
         /\ (~pending[t] /\ pending'[t])
            => /\ pc[t] \in {"resolv", "publish"}
               /\ ~Stepped(t) /\ puts' = puts
         /\ pc[t] = "resolv"
            => /\ ip'[t] = ip[t]
               /\ pc'[t] \in {"resolv", "publish", "wait"}
               /\ \/ qlog'[t] = qlog[t]
                  \/ /\ Len(qlog'[t]) = Len(qlog[t]) + 1
                     /\ SubSeq(qlog'[t], 1, Len(qlog[t])) = qlog[t]
               /\ idx'[t] \in {idx[t], idx[t] + 1, 0}
         /\ pc[t] = "publish"
            => /\ pc'[t] \in {"publish", "wait"}
               /\ ip'[t] = ip[t] /\ qlog'[t] = qlog[t] /\ idx'[t] = 0
               /\ n'[t] = n[t] /\ p'[t] = p[t]
               /\ Stepped(t) => puts' = puts
         /\ (pc'[t] = "resolv" /\ idx'[t] = 1 /\ idx[t] # 1)
            => pc[t] = "wait"]_vars

\* C20 witness: the ticker fired while the task's upsert was in flight, and
\* the tick waits in the channel.
C20_Witness ==
    \E t \in DOMAIN pc :
        /\ pending[t] /\ pc[t] = "publish" /\ Len(qlog[t]) = 1
        /\ lastok[t] # ""

\* Tasks t and u have PUTs in flight for the same record with different
\* values.
Racing(t, u) ==
    /\ t # u /\ pc[t] = "publish" /\ pc[u] = "publish"
    /\ Request(t).label = Request(u).label
    /\ Request(t).rtype = Request(u).rtype
    /\ Request(t).value # Request(u).value

\* C21: while the process runs no task waits for another: whatever the
\* other tasks are in the middle of, a task on its ticker can take its
\* tick, a task in its lookup loop can go on and a task's upsert can end.
\* Of two tasks with PUTs in flight for the same record with different
\* values, the provider can take either one first and can take each one
\* after the other, the one it takes last being the record: nothing orders
\* the two.
C21_NoOrderAcrossTasks ==
    mainpc = "recv" =>
      \A t \in DOMAIN pc :
        /\ (pc[t] = "wait" /\ argv.iface[t].interval > 0) => ENABLED Tick(t)
        /\ pc[t] = "resolv" => ENABLED Resolv(t)
        /\ pc[t] = "publish" => ENABLED PublishReturn(t)
        /\ \A u \in DOMAIN pc :
              (Racing(t, u) /\ ~applied[t]) =>
                ENABLED (/\ ProviderApplies(t)
                         /\ Request(t) \in zone'
                         /\ Request(u) \notin zone')

\* C21 witness: tasks 1 and 3 upsert different addresses for the same
\* record; the provider took the PUT of task 1, then that of task 3, whose
\* address is the record, while task 2 is in a tick of its own.
C21_Witness ==
    /\ Len(pc) = 3 /\ Racing(1, 3) /\ applied[1] /\ applied[3]
    /\ Request(3) \in zone /\ Request(1) \notin zone
    /\ pc[2] = "resolv"

\* C22: in a resolution under resolv4 the j-th lookup is dialled over "udp"
\* from the j-th candidate of the list, each candidate serving one lookup at
\* most (no more lookups than candidates, and while the loop runs exactly
\* one for each candidate passed); under resolv6 every lookup is dialled
\* over "udp6" from no local address, whatever the candidates are.
C22_QueryBoundToCandidate ==
    \A t \in DOMAIN pc :
        LET s == argv.iface[t].strategy IN
        /\ ~IsReflect(s) => qlog[t] = <<>>
        /\ IsReflect(s) =>
              /\ Len(qlog[t]) <= Len(ip[t])
              /\ pc[t] = "resolv" => Len(qlog[t]) = idx[t] - 1
              /\ \A j \in 1 .. Len(qlog[t]) :
                    IF s = resolv4
                    THEN /\ qlog[t][j].LocalAddr = ip[t][j]
                         /\ qlog[t][j].LocalAddr # NilIP
                         /\ qlog[t][j].network = "udp"
                    ELSE /\ qlog[t][j].LocalAddr = NilIP
                         /\ qlog[t][j].network = "udp6"

\* C22 witness: a resolv4 resolution made a lookup from each of its
\* candidates, the first from 203.0.113.5 and the second from 2001:db8::1.
C22_Witness ==
    \E t \in DOMAIN pc :
        /\ argv.iface[t].strategy = resolv4
        /\ Len(ip[t]) >= 2 /\ Len(qlog[t]) = Len(ip[t])
        /\ ip[t][1] = ipA /\ ip[t][2] = ipC
        /\ qlog[t][1].LocalAddr = ipA /\ qlog[t][2].LocalAddr = ipC

\* C23: a publish call that returns an error leaves the task on its ticker,
\* a ticker of a positive interval in a running process, with p holding the
\* address of that call.  p changes at no other step than a tick that resolves an address
\* other than p, and with dry-run off every such tick, those after a failed
\* call included, assigns the new address to p and calls publish with it:
\* a PUT for the new address is in flight, or, for a string that is no
\* address, the call has returned nil.  So the first tick after a failed
\* call that resolves another address than the failed one calls publish
\* with the new address.
C23_RetryAfterPublishFailure ==
    [][\A t \in DOMAIN pc :
         /\ (pc[t] = "publish" /\ pc'[t] # "publish" /\ perr'[t] # NoErr)
            => /\ pc'[t] = "wait" /\ p'[t] = n[t] /\ n'[t] = n[t]
               /\ lastok'[t] = lastok[t]
               /\ mainpc' = "recv" /\ argv'.iface[t].interval > 0
         /\ p'[t] # p[t]
            => /\ pc[t] \in {"wait", "resolv"} /\ idx'[t] = 0
               /\ rerr'[t] = NoErr /\ n'[t] # p[t]
         /\ (/\ ~argv.dryrun /\ pc[t] \in {"wait", "resolv"}
             /\ Stepped(t) /\ idx'[t] = 0 /\ pc'[t] \in {"wait", "publish"}
             /\ rerr'[t] = NoErr /\ n'[t] # p[t])
            => /\ p'[t] = n'[t]
               /\ LET c == publish(argv, argv.iface[t].label, n'[t]) IN
                  IF c.do
                  THEN pc'[t] = "publish" /\ c.req \in puts'
                       /\ c.req.value = n'[t]
                  ELSE pc'[t] = "wait" /\ lastok'[t] = n'[t]]_vars

\* C23 witness: the one task's first publish call, for 203.0.113.5, returned
\* an error (no call has succeeded), a later tick resolved 198.51.100.7 and
\* the PUT for it is in flight.
C23_Witness ==
    /\ Len(pc) = 1 /\ pc[1] = "publish" /\ ~argv.dryrun
    /\ n[1] = "198.51.100.7" /\ p[1] = n[1] /\ lastok[1] = ""
    /\ puts = {[label |-> argv.iface[1].label, rtype |-> "A",
                 value |-> "203.0.113.5"],
                [label |-> argv.iface[1].label, rtype |-> "A",
                 value |-> "198.51.100.7"]}

====
